---- MODULE Spec2Model ----
(***************************************************************************)
(* Polling replication of src/poll_sync.py: the orchestrator (main), one    *)
(* poll loop per collection (sync_collection_polling), the per-document    *)
(* reconciler (sync_document) and the in-memory cursor store (sync_state). *)
(*                                                                         *)
(* Time is an integer clock `now` (datetime.utcnow()).  An ObjectId is the *)
(* integer ts * IdSpace + n: its creation time ts, then a counter n.       *)
(***************************************************************************)
EXTENDS Integers, Sequences, FiniteSets, TLC

\* ---------------------------------------------------------------- bounds
MaxTime == 2
MaxDocs == 3
IdSpace == 2

\* BATCH_SIZE (line 23, from the environment), scaled down.
BATCH_SIZE == 2

\* ------------------------------------------------------ program constants
\* timedelta(hours=1), in clock ticks; Python's None, below every identifier
\* and every time.
Hour == 1
None == -1

\* POLL_INTERVAL (line 24), in seconds, and the two arguments of asyncio.sleep:
\* after a cycle that completed (line 177), after one that failed (line 181).
POLL_INTERVAL == 5
poll_delay == POLL_INTERVAL
backoff_delay == POLL_INTERVAL * 2

Collections == {"A", "B"}
NoField == "None"
timestamp_fields_id_first ==
    <<"_id", "updatedAt", "modifiedAt", "lastModified", "createdAt">>
timestamp_fields == <<"updatedAt", "modifiedAt", "lastModified", "createdAt", "_id">>
StartTime == Hour

\* Field sets of the documents of one collection (besides _id and v).
Shapes == {{}, {"createdAt"}, {"updatedAt", "createdAt"}}

VARIABLES now, source, target, pc, probe, timestamp_field_used,
          sync_state, last_processed_id, current_time, matched, batch,
          documents_synced, signal, sleep_for, query,
          main_pc, tasks

vars == <<now, source, target, pc, probe, timestamp_field_used,
          sync_state, last_processed_id, current_time, matched, batch,
          documents_synced, signal, sleep_for, query,
          main_pc, tasks>>

\* ------------------------------------------------------------- documents
ObjectIdFromDatetime(t) == t * IdSpace
ObjectId(t, n) == ObjectIdFromDatetime(t) + n
GenerationTime(id) == id \div IdSpace

\* A document: _id, a payload v, and the timestamp fields of its shape:
\* createdAt is the time its identifier was generated.
Doc(id, shape, updated, v) ==
    [f \in {"_id", "v"} \cup shape |->
        IF f = "_id" THEN id
        ELSE IF f = "v" THEN v
        ELSE IF f = "createdAt" THEN GenerationTime(id)
        ELSE updated]

HasField(d, f) == f \in DOMAIN d

\* The j-th document of a collection at start: identifiers in generation
\* order from one hour before the start, IdSpace of them per clock tick; every
\* document was last written at StartTime.
PoolId(j) == ObjectId(StartTime - Hour + (j - 1) \div IdSpace, (j - 1) % IdSpace)
InitialDoc(j, shape) == Doc(PoolId(j), shape, StartTime, 1)
InitialCollection(k, shape) == [j \in 1..k |-> InitialDoc(j, shape)]

\* What an earlier run of the process (whose cursors are lost) left in the
\* target: the documents as they were before their last write.
StaleDoc(j, shape) == Doc(PoolId(j), shape, StartTime - Hour, 0)
StaleCollection(k, shape) ==
    [i \in {PoolId(j) : j \in 1..k} |->
        StaleDoc(CHOOSE j \in 1..k : PoolId(j) = i, shape)]

Min(a, b) == IF a < b THEN a ELSE b
Range(s) == {s[i] : i \in 1..Len(s)}

\* ------------------------------------------------------ the cursor store
\* A get_last_sync_time that forgets the membership test of line 70 and
\* re-creates the entry on every call.
get_last_sync_time_reinit(state, collection_name) ==
    [n \in DOMAIN state \cup {collection_name} |->
        IF n = collection_name THEN now - Hour ELSE state[n]]

\* get_last_sync_time: the entry is created on first use, one hour back.
get_last_sync_time(state, collection_name) ==
    IF collection_name \in DOMAIN state
    THEN state
    ELSE [n \in DOMAIN state \cup {collection_name} |->
            IF n = collection_name THEN now - Hour ELSE state[n]]

\* A cursor store with one timestamp for all collections.
update_last_sync_time_shared(state, collection_name, timestamp) ==
    [n \in DOMAIN state \cup {collection_name} |-> timestamp]

\* update_last_sync_time: sync_state[collection_name] = timestamp.
update_last_sync_time(state, collection_name, timestamp) ==
    [n \in DOMAIN state \cup {collection_name} |->
        IF n = collection_name THEN timestamp ELSE state[n]]

\* ------------------------------------------------------- the target store
InsertOne(coll, doc) ==
    [i \in DOMAIN coll \cup {doc["_id"]} |->
        IF i = doc["_id"] THEN doc ELSE coll[i]]

\* A replace_one that keeps the stored payload (a partial update).
ReplaceOne_partial(coll, doc_id, doc) ==
    [i \in DOMAIN coll |->
        IF i = doc_id
        THEN [f \in DOMAIN doc |->
                IF f = "v" /\ f \in DOMAIN coll[i] THEN coll[i][f] ELSE doc[f]]
        ELSE coll[i]]

ReplaceOne(coll, doc_id, doc) ==
    [i \in DOMAIN coll |-> IF i = doc_id THEN doc ELSE coll[i]]

\* Whether sync_document has to write: the document is absent or differs.
NeedsWrite(coll, source_doc) ==
    IF source_doc["_id"] \in DOMAIN coll
    THEN coll[source_doc["_id"]] # source_doc
    ELSE TRUE

\* A sync_document that never updates a document the target already has.
sync_document_insert_only(coll, source_doc) ==
    IF source_doc["_id"] \in DOMAIN coll
    THEN [target |-> coll, signal |-> "unchanged"]
    ELSE [target |-> InsertOne(coll, source_doc), signal |-> "inserted"]

\* sync_document without a store error: the target afterwards and what is logged.
sync_document(coll, source_doc) ==
    LET doc_id == source_doc["_id"] IN
    IF doc_id \in DOMAIN coll
    THEN IF coll[doc_id] # source_doc
         THEN [target |-> ReplaceOne(coll, doc_id, source_doc), signal |-> "updated"]
         ELSE [target |-> coll, signal |-> "unchanged"]
    ELSE [target |-> InsertOne(coll, source_doc), signal |-> "inserted"]

\* ------------------------------------------------------- the source store
\* find_one({field: {"$exists": True}}) finds a document.
Exists(coll, field) == \E i \in 1..Len(coll) : HasField(coll[i], field)

\* .sort("_id", 1)
RECURSIVE SortById(_)
SortById(s) ==
    IF Len(s) <= 1 THEN s
    ELSE LET m == CHOOSE i \in 1..Len(s) :
                    \A j \in 1..Len(s) : s[i]["_id"] <= s[j]["_id"]
             rest == [k \in 1..(Len(s) - 1) |-> IF k < m THEN s[k] ELSE s[k + 1]]
         IN <<s[m]>> \o SortById(rest)

\* A limit that lets one document too many through.
Limit_off_by_one(s, n) == SubSeq(s, 1, Min(Len(s), n + 1))

\* .limit(n)
Limit(s, n) == SubSeq(s, 1, Min(Len(s), n))

\* An identifier query that takes the last processed identifier in again.
IdQuery_inclusive(d, last_id) ==
    IF last_id # None
    THEN d["_id"] >= last_id
    ELSE d["_id"] >= ObjectIdFromDatetime(now - Hour)

\* The lower bound of the identifier query: strict after the last processed
\* identifier, or from the identifier synthesized from one hour ago.
IdQuery(d, last_id) ==
    IF last_id # None
    THEN d["_id"] > last_id
    ELSE d["_id"] >= ObjectIdFromDatetime(now - Hour)

FieldQuery(d, field, last_sync) == HasField(d, field) /\ d[field] > last_sync

\* No query has been built yet.
NoQuery == [field |-> NoField, op |-> "", value |-> None]

\* The filter document of lines 136-147: its field, operator and lower bound.
build_query(field, last_sync, last_id) ==
    IF field = "_id"
    THEN IF last_id # None
         THEN [field |-> "_id", op |-> "$gt", value |-> last_id]
         ELSE [field |-> "_id", op |-> "$gte",
               value |-> ObjectIdFromDatetime(now - Hour)]
    ELSE [field |-> field, op |-> "$gt", value |-> last_sync]

\* The documents the cycle's query selects, in the order the cursor yields them.
Find(coll, field, last_sync, last_id) ==
    IF field = "_id"
    THEN SortById(SelectSeq(coll, LAMBDA d : IdQuery(d, last_id)))
    ELSE SelectSeq(coll, LAMBDA d : FieldQuery(d, field, last_sync))

\* ------------------------------------------------------------------ Init
\* The state when main is entered: no client, no task.
\* The source holds at most MaxDocs documents, the larger collection first;
\* a target collection is empty or holds what an earlier run replicated.
Init ==
    /\ now = StartTime
    /\ \E k \in [Collections -> 0..MaxDocs] :
       \E sh \in [Collections -> Shapes] :
       \E old \in [Collections -> BOOLEAN] :
          /\ \A c \in Collections : k[c] = 0 => (sh[c] = {} /\ ~old[c])
          /\ k["A"] + k["B"] <= MaxDocs
          /\ k["A"] >= k["B"]
          /\ source = [c \in Collections |-> InitialCollection(k[c], sh[c])]
          /\ target = [c \in Collections |->
                          IF old[c] THEN StaleCollection(k[c], sh[c]) ELSE <<>>]
    /\ pc = [c \in Collections |-> "idle"]
    /\ probe = [c \in Collections |-> 1]
    /\ timestamp_field_used = [c \in Collections |-> NoField]
    /\ sync_state = <<>>
    /\ last_processed_id = [c \in Collections |-> None]
    /\ current_time = [c \in Collections |-> None]
    /\ matched = [c \in Collections |-> <<>>]
    /\ batch = [c \in Collections |-> <<>>]
    /\ documents_synced = [c \in Collections |-> 0]
    /\ signal = [c \in Collections |-> "none"]
    /\ sleep_for = [c \in Collections |-> 0]
    /\ query = [c \in Collections |-> NoQuery]
    /\ main_pc = "initialize"
    /\ tasks = <<>>

\* --------------------------------------------- sync_collection_polling(c)
\* One existence probe of the detection loop (lines 115-125).
Detect(c) ==
    /\ pc[c] = "detect"
    /\ LET field == timestamp_fields[probe[c]] IN
       IF Exists(source[c], field)
       THEN /\ timestamp_field_used' = [timestamp_field_used EXCEPT ![c] = field]
            /\ pc' = [pc EXCEPT ![c] = "poll"]
            /\ UNCHANGED probe
       ELSE IF probe[c] < Len(timestamp_fields)
       THEN /\ probe' = [probe EXCEPT ![c] = @ + 1]
            /\ UNCHANGED <<timestamp_field_used, pc>>
       ELSE /\ timestamp_field_used' = [timestamp_field_used EXCEPT ![c] = "_id"]
            /\ pc' = [pc EXCEPT ![c] = "poll"]
            /\ UNCHANGED probe
    /\ UNCHANGED <<now, source, target, sync_state, last_processed_id,
                   current_time, matched, batch, documents_synced, signal>>
    /\ UNCHANGED <<sleep_for, query, main_pc, tasks>>

\* A probe raises: the exception leaves sync_collection_polling (the probes are
\* outside the try of the loop), sync_collection logs it and the task ends.
DetectFail(c) ==
    /\ pc[c] = "detect"
    /\ pc' = [pc EXCEPT ![c] = "done"]
    /\ UNCHANGED <<now, source, target, probe, timestamp_field_used,
                   sync_state, last_processed_id, current_time, matched, batch,
                   documents_synced, signal>>
    /\ UNCHANGED <<sleep_for, query, main_pc, tasks>>

\* Where a cycle starts: after detection, or when a sleep returns (no
\* suspension point lies between the sleep and the query).
AtTop(c) == pc[c] \in {"poll", "sleep", "backoff"}

\* The top of a cycle: read the cursor, capture the time, run the query.
Poll(c) ==
    /\ AtTop(c)
    /\ LET state == get_last_sync_time(sync_state, c)
           found == Find(source[c], timestamp_field_used[c], state[c],
                         last_processed_id[c])
       IN /\ sync_state' = state
          /\ matched' = [matched EXCEPT ![c] = found]
          /\ batch' = [batch EXCEPT ![c] = Limit(found, BATCH_SIZE)]
    /\ current_time' = [current_time EXCEPT ![c] = now]
    /\ documents_synced' = [documents_synced EXCEPT ![c] = 0]
    /\ signal' = [signal EXCEPT ![c] = "none"]
    /\ pc' = [pc EXCEPT ![c] = "process"]
    /\ UNCHANGED <<now, source, target, probe, timestamp_field_used,
                   last_processed_id>>
    /\ query' = [query EXCEPT ![c] =
          build_query(timestamp_field_used[c],
                      get_last_sync_time(sync_state, c)[c], last_processed_id[c])]
    /\ sleep_for' = [sleep_for EXCEPT ![c] = 0]
    /\ UNCHANGED <<main_pc, tasks>>

\* The cycle's locals are dead once the cycle is over.
ClearLocals(c) ==
    /\ current_time' = [current_time EXCEPT ![c] = None]
    /\ matched' = [matched EXCEPT ![c] = <<>>]
    /\ batch' = [batch EXCEPT ![c] = <<>>]
    /\ documents_synced' = [documents_synced EXCEPT ![c] = 0]

\* A handler that sends the loop back to detection after an error.
FetchFail_redetects(c) ==
    /\ AtTop(c)
    /\ sync_state' = get_last_sync_time(sync_state, c)
    /\ pc' = [pc EXCEPT ![c] = "detect"]
    /\ probe' = [probe EXCEPT ![c] = 1]
    /\ signal' = [signal EXCEPT ![c] = "error"]
    /\ ClearLocals(c)
    /\ UNCHANGED <<now, source, target, timestamp_field_used,
                   last_processed_id, sleep_for, query, main_pc, tasks>>

\* The query raises: get_last_sync_time has already created the cursor entry.
\* The handler of line 179 logs and sleeps twice the interval.
FetchFail(c) ==
    /\ AtTop(c)
    /\ sync_state' = get_last_sync_time(sync_state, c)
    /\ pc' = [pc EXCEPT ![c] = "backoff"]
    /\ signal' = [signal EXCEPT ![c] = "error"]
    /\ ClearLocals(c)
    /\ UNCHANGED <<now, source, target, probe, timestamp_field_used,
                   last_processed_id>>
    /\ query' = [query EXCEPT ![c] =
          build_query(timestamp_field_used[c],
                      get_last_sync_time(sync_state, c)[c], last_processed_id[c])]
    /\ sleep_for' = [sleep_for EXCEPT ![c] = backoff_delay]
    /\ UNCHANGED <<main_pc, tasks>>

\* A loop that takes the documents of the batch from its end.
NextDoc_reversed(c) == batch[c][Len(batch[c]) - documents_synced[c]]

\* The document the async for yields next (line 158).
NextDoc(c) == batch[c][documents_synced[c] + 1]

\* sync_document on the next document of the batch, no store error.
Reconcile(c) ==
    /\ pc[c] = "process"
    /\ documents_synced[c] < Len(batch[c])
    /\ LET r == sync_document(target[c], NextDoc(c)) IN
          /\ target' = [target EXCEPT ![c] = r.target]
          /\ signal' = [signal EXCEPT ![c] = r.signal]
    /\ documents_synced' = [documents_synced EXCEPT ![c] = @ + 1]
    /\ UNCHANGED <<now, source, pc, probe, timestamp_field_used,
                   sync_state, last_processed_id, current_time, matched, batch>>
    /\ UNCHANGED <<sleep_for, query, main_pc, tasks>>

\* A handler placed outside the while loop: the error ends the loop.
ReconcileFail_ends_loop(c) ==
    /\ pc[c] = "process"
    /\ documents_synced[c] < Len(batch[c])
    /\ pc' = [pc EXCEPT ![c] = "done"]
    /\ UNCHANGED <<now, source, target, probe, timestamp_field_used,
                   sync_state, last_processed_id, current_time, matched, batch,
                   documents_synced, signal>>
    /\ UNCHANGED <<sleep_for, query, main_pc, tasks>>

\* A cursor that stops at the first document of the batch.
AdvanceId_first(last_id, docs) == IF Len(docs) > 0 THEN docs[1]["_id"] ELSE last_id

\* The identifier cursor after a batch: the last document's identifier.
AdvanceId(last_id, docs) == IF Len(docs) > 0 THEN docs[Len(docs)]["_id"] ELSE last_id

\* A handler that records the progress of the failed cycle before it sleeps.
ReconcileFail_advances(c) ==
    /\ pc[c] = "process"
    /\ documents_synced[c] < Len(batch[c])
    /\ IF timestamp_field_used[c] = "_id"
       THEN /\ last_processed_id' =
                 [last_processed_id EXCEPT
                     ![c] = AdvanceId(@, SubSeq(batch[c], 1, documents_synced[c]))]
            /\ UNCHANGED sync_state
       ELSE /\ sync_state' = update_last_sync_time(sync_state, c, current_time[c])
            /\ UNCHANGED last_processed_id
    /\ pc' = [pc EXCEPT ![c] = "backoff"]
    /\ signal' = [signal EXCEPT ![c] = "error"]
    /\ ClearLocals(c)
    /\ sleep_for' = [sleep_for EXCEPT ![c] = backoff_delay]
    /\ UNCHANGED <<now, source, target, probe, timestamp_field_used,
                   query, main_pc, tasks>>

\* A store operation of sync_document raises: logged, re-raised (line 99),
\* caught by the loop (line 179), which backs off.  Nothing was written.
ReconcileFail(c) ==
    /\ pc[c] = "process"
    /\ documents_synced[c] < Len(batch[c])
    /\ pc' = [pc EXCEPT ![c] = "backoff"]
    /\ signal' = [signal EXCEPT ![c] = "error"]
    /\ ClearLocals(c)
    /\ UNCHANGED <<now, source, target, probe, timestamp_field_used,
                   sync_state, last_processed_id>>
    /\ sleep_for' = [sleep_for EXCEPT ![c] = backoff_delay]
    /\ UNCHANGED <<query, main_pc, tasks>>

\* The cursor is exhausted: update the tracking (lines 163-174), then sleep.
EndBatch(c) ==
    /\ pc[c] = "process"
    /\ documents_synced[c] = Len(batch[c])
    /\ IF timestamp_field_used[c] = "_id"
       THEN /\ last_processed_id' =
                 [last_processed_id EXCEPT ![c] = AdvanceId(@, batch[c])]
            /\ UNCHANGED sync_state
       ELSE /\ sync_state' = update_last_sync_time(sync_state, c, current_time[c])
            /\ UNCHANGED last_processed_id
    /\ pc' = [pc EXCEPT ![c] = "sleep"]
    /\ signal' = [signal EXCEPT ![c] = "none"]
    /\ ClearLocals(c)
    /\ UNCHANGED <<now, source, target, probe, timestamp_field_used>>
    /\ query' = [query EXCEPT ![c] = NoQuery]
    /\ sleep_for' = [sleep_for EXCEPT ![c] = poll_delay]
    /\ UNCHANGED <<main_pc, tasks>>

\* ------------------------------------------------------------------ main
\* What source_db.list_collection_names() returns: the collections of the
\* application and one collection of the server's own.
collection_names == <<"A", "system.views", "B">>

\* The characters of a collection name.
Chars(name) ==
    CASE name = "A" -> <<"A">>
      [] name = "B" -> <<"B">>
      [] name = "system.views" ->
            <<"s", "y", "s", "t", "e", "m", ".", "v", "i", "e", "w", "s">>

system_prefix == <<"s", "y", "s", "t", "e", "m", ".">>

\* str.startswith
startswith(s, prefix) ==
    Len(s) >= Len(prefix) /\ SubSeq(s, 1, Len(prefix)) = prefix

\* A task for every listed collection, the server's own included.
collections_to_sync_unfiltered(names) == names

\* The filter of line 234.
collections_to_sync(names) ==
    SelectSeq(names, LAMBDA name : ~startswith(Chars(name), system_prefix))

\* initialize_clients() returns True.
InitializeClients ==
    /\ main_pc = "initialize"
    /\ main_pc' = "test"
    /\ UNCHANGED <<now, source, target, probe, timestamp_field_used,
                   sync_state, last_processed_id, current_time, matched, batch,
                   documents_synced, signal, sleep_for, query, pc, tasks>>

\* initialize_clients() returns False: main logs and returns (lines 221-223).
InitializeClientsFail ==
    /\ main_pc = "initialize"
    /\ main_pc' = "init_failed"
    /\ UNCHANGED <<now, source, target, probe, timestamp_field_used,
                   sync_state, last_processed_id, current_time, matched, batch,
                   documents_synced, signal, sleep_for, query, pc, tasks>>

\* test_database_connection() returns True.
TestConnection ==
    /\ main_pc = "test"
    /\ main_pc' = "list"
    /\ UNCHANGED <<now, source, target, probe, timestamp_field_used,
                   sync_state, last_processed_id, current_time, matched, batch,
                   documents_synced, signal, sleep_for, query, pc, tasks>>

\* test_database_connection() returns False: main logs and returns.
TestConnectionFail ==
    /\ main_pc = "test"
    /\ main_pc' = "test_failed"
    /\ UNCHANGED <<now, source, target, probe, timestamp_field_used,
                   sync_state, last_processed_id, current_time, matched, batch,
                   documents_synced, signal, sleep_for, query, pc, tasks>>

\* A main whose failed connection test logs and goes on (no return).
ListCollections_after_failed_test ==
    /\ main_pc \in {"list", "test_failed"}
    /\ tasks' = collections_to_sync(collection_names)
    /\ pc' = [c \in Collections |->
                IF \E i \in 1..Len(tasks') : tasks'[i] = c
                THEN "detect" ELSE "idle"]
    /\ main_pc' = "gather"
    /\ UNCHANGED <<now, source, target, probe, timestamp_field_used,
                   sync_state, last_processed_id, current_time, matched, batch,
                   documents_synced, signal, sleep_for, query>>

\* Lines 231-247: list, filter, create one task per name, wait for them all.
ListCollections ==
    /\ main_pc = "list"
    /\ tasks' = collections_to_sync(collection_names)
    /\ pc' = [c \in Collections |->
                IF \E i \in 1..Len(tasks') : tasks'[i] = c
                THEN "detect" ELSE "idle"]
    /\ main_pc' = "gather"
    /\ UNCHANGED <<now, source, target, probe, timestamp_field_used,
                   sync_state, last_processed_id, current_time, matched, batch,
                   documents_synced, signal, sleep_for, query>>

\* list_collection_names() raises: the handler of line 249 logs it.
ListCollectionsFail ==
    /\ main_pc = "list"
    /\ main_pc' = "failed"
    /\ UNCHANGED <<now, source, target, probe, timestamp_field_used,
                   sync_state, last_processed_id, current_time, matched, batch,
                   documents_synced, signal, sleep_for, query, pc, tasks>>

\* gather returns once every task has ended.
GatherReturns ==
    /\ main_pc = "gather"
    /\ \A i \in 1..Len(tasks) :
          tasks[i] \in Collections => pc[tasks[i]] = "done"
    /\ main_pc' = "returned"
    /\ UNCHANGED <<now, source, target, probe, timestamp_field_used,
                   sync_state, last_processed_id, current_time, matched, batch,
                   documents_synced, signal, sleep_for, query, pc, tasks>>

\* ----------------------------------------------------------- environment
Tick ==
    /\ now < MaxTime
    /\ now' = now + 1
    /\ UNCHANGED <<source, target, pc, probe, timestamp_field_used,
                   sync_state, last_processed_id, current_time, matched, batch,
                   documents_synced, signal>>
    /\ UNCHANGED <<sleep_for, query, main_pc, tasks>>

\* An application rewrites document i of the source collection: new payload,
\* updatedAt (where the documents carry it) set to the time of the write.
Touch(d, t) ==
    [f \in DOMAIN d |->
        IF f = "v" THEN d[f] + 1 ELSE IF f = "updatedAt" THEN t ELSE d[f]]

SourceUpdate(c, i) ==
    /\ now < MaxTime
    /\ i \in 1..Len(source[c])
    /\ now' = now + 1
    /\ source' = [source EXCEPT ![c][i] = Touch(@, now + 1)]
    /\ UNCHANGED <<target, pc, probe, timestamp_field_used,
                   sync_state, last_processed_id, current_time, matched, batch,
                   documents_synced, signal>>
    /\ UNCHANGED <<sleep_for, query, main_pc, tasks>>

\* An application inserts a document of some shape: a fresh identifier
\* generated at the time of the write, after every identifier in the
\* collection.  The source never holds more than MaxDocs documents.
SourceInsert(c, shape) ==
    /\ now < MaxTime
    /\ Len(source["A"]) + Len(source["B"]) < MaxDocs
    /\ now' = now + 1
    /\ source' = [source EXCEPT
                     ![c] = Append(@, Doc(ObjectId(now + 1, 0), shape, now + 1, 1))]
    /\ UNCHANGED <<target, pc, probe, timestamp_field_used,
                   sync_state, last_processed_id, current_time, matched, batch,
                   documents_synced, signal>>
    /\ UNCHANGED <<sleep_for, query, main_pc, tasks>>

Next ==
    \/ InitializeClients
    \/ TestConnection
    \/ ListCollections
    \/ GatherReturns
    \/ InitializeClientsFail
    \/ TestConnectionFail
    \/ ListCollectionsFail
    \/ \E c \in Collections : Detect(c)
    \/ \E c \in Collections : DetectFail(c)
    \/ \E c \in Collections : Poll(c)
    \/ \E c \in Collections : FetchFail(c)
    \/ \E c \in Collections : Reconcile(c)
    \/ \E c \in Collections : ReconcileFail(c)
    \/ \E c \in Collections : EndBatch(c)
    \/ Tick
    \/ \E c \in Collections : \E i \in 1..MaxDocs : SourceUpdate(c, i)

Spec == Init /\ [][Next]_vars

\* The loop with the source collections left unchanged.
FixedNext ==
    \/ InitializeClients
    \/ TestConnection
    \/ ListCollections
    \/ GatherReturns
    \/ InitializeClientsFail
    \/ TestConnectionFail
    \/ ListCollectionsFail
    \/ \E c \in Collections : Detect(c)
    \/ \E c \in Collections : DetectFail(c)
    \/ \E c \in Collections : Poll(c)
    \/ \E c \in Collections : FetchFail(c)
    \/ \E c \in Collections : Reconcile(c)
    \/ \E c \in Collections : ReconcileFail(c)
    \/ \E c \in Collections : EndBatch(c)
    \/ Tick

\* Store operations may fail, but not forever: a query and a reconciliation
\* that are attempted again and again eventually succeed; the event loop runs
\* every task that can run, and time passes.
Fairness ==
    /\ WF_vars(Tick)
    /\ WF_vars(InitializeClients \/ TestConnection \/ ListCollections)
    /\ \A c \in Collections :
          /\ WF_vars(Detect(c))
          /\ SF_vars(Poll(c))
          /\ \A n \in 0..(BATCH_SIZE - 1) :
                SF_vars(Reconcile(c) /\ documents_synced[c] = n)
          /\ WF_vars(EndBatch(c))

LiveSpec == Init /\ [][FixedNext]_vars /\ Fairness

\* The loop over source collections that grow: documents are inserted, none
\* is rewritten.
GrowNext ==
    \/ InitializeClients
    \/ TestConnection
    \/ ListCollections
    \/ GatherReturns
    \/ InitializeClientsFail
    \/ TestConnectionFail
    \/ ListCollectionsFail
    \/ \E c \in Collections : Detect(c)
    \/ \E c \in Collections : DetectFail(c)
    \/ \E c \in Collections : Poll(c)
    \/ \E c \in Collections : FetchFail(c)
    \/ \E c \in Collections : Reconcile(c)
    \/ \E c \in Collections : ReconcileFail(c)
    \/ \E c \in Collections : EndBatch(c)
    \/ Tick
    \/ \E c \in Collections : \E shape \in Shapes : SourceInsert(c, shape)

GrowSpec == Init /\ [][GrowNext]_vars

\* No store operation fails and the source is unchanged.
CleanNext ==
    \/ InitializeClients
    \/ TestConnection
    \/ ListCollections
    \/ \E c \in Collections : Detect(c)
    \/ \E c \in Collections : Poll(c)
    \/ \E c \in Collections : Reconcile(c)
    \/ \E c \in Collections : EndBatch(c)
    \/ Tick

CleanFairness ==
    /\ WF_vars(Tick)
    /\ WF_vars(InitializeClients \/ TestConnection \/ ListCollections)
    /\ \A c \in Collections :
          WF_vars(Detect(c) \/ Poll(c) \/ Reconcile(c) \/ EndBatch(c))

CleanSpec == Init /\ [][CleanNext]_vars /\ CleanFairness

\* The target store of every collection in Rejecting rejects every write;
\* nothing else fails and the source is unchanged.
Rejecting == {"A"}

ReconcileAccept(c) ==
    /\ pc[c] = "process"
    /\ documents_synced[c] < Len(batch[c])
    /\ ~(c \in Rejecting /\ NeedsWrite(target[c], NextDoc(c)))
    /\ Reconcile(c)

ReconcileReject(c) ==
    /\ pc[c] = "process"
    /\ documents_synced[c] < Len(batch[c])
    /\ c \in Rejecting
    /\ NeedsWrite(target[c], NextDoc(c))
    /\ ReconcileFail(c)

IsoNext ==
    \/ InitializeClients
    \/ TestConnection
    \/ ListCollections
    \/ \E c \in Collections : Detect(c)
    \/ \E c \in Collections : Poll(c)
    \/ \E c \in Collections : ReconcileAccept(c)
    \/ \E c \in Collections : ReconcileReject(c)
    \/ \E c \in Collections : EndBatch(c)
    \/ Tick

IsoFairness ==
    /\ WF_vars(Tick)
    /\ WF_vars(InitializeClients \/ TestConnection \/ ListCollections)
    /\ \A c \in Collections :
          WF_vars(Detect(c) \/ Poll(c) \/ ReconcileAccept(c)
                    \/ ReconcileReject(c) \/ EndBatch(c))

IsoSpec == Init /\ [][IsoNext]_vars /\ IsoFairness

\* ---------------------------------------------------------------- claims
\* Document j of the source collection c is in the batch being processed.
InBatch(c, j) ==
    /\ j <= Len(source[c])
    /\ \E n \in 1..Len(batch[c]) : batch[c][n]["_id"] = source[c][j]["_id"]

\* The query selected document j of c, and the limit cut it off the batch.
CutOff(c, j) ==
    /\ j <= Len(source[c])
    /\ \E n \in 1..Len(matched[c]) : matched[c][n]["_id"] = source[c][j]["_id"]
    /\ ~InBatch(c, j)

\* The target holds document j of the source collection c, field for field.
Converged(c, j) ==
    /\ j <= Len(source[c])
    /\ source[c][j]["_id"] \in DOMAIN target[c]
    /\ target[c][source[c][j]["_id"]] = source[c][j]

\* C1: with the source unchanged and store operations eventually succeeding,
\* every document that was in a processed batch is eventually identical in
\* the target.
C1_Convergence ==
    \A c \in Collections : \A j \in 1..MaxDocs :
        [](InBatch(c, j) => <>Converged(c, j))

\* C2: with the source unchanged and no failures, every selected document
\* that the batch cap cut off is reconciled in a later cycle.
C2_RemainderPickedUp ==
    \A c \in Collections : \A j \in 1..MaxDocs :
        [](CutOff(c, j) => <>Converged(c, j))

\* C10: a poll loop never ends on its own.
C10_NeverTerminates == \A c \in Collections : pc[c] # "done"

\* C3: from one state to the next no collection's cursor moves back: a
\* sync_state entry, once created, stays and never decreases, and
\* last_processed_id never decreases (None is below every identifier); this
\* covers the steps of failing cycles.
C3_CursorMonotonic ==
    [][\A c \in Collections :
          /\ c \in DOMAIN sync_state =>
                c \in DOMAIN sync_state' /\ sync_state'[c] >= sync_state[c]
          /\ last_processed_id'[c] >= last_processed_id[c]]_vars

\* A cycle failed after an earlier cycle had advanced the cursor.
C3_Witness ==
    \E c \in Collections :
        /\ pc[c] = "backoff"
        /\ \/ c \in DOMAIN sync_state /\ sync_state[c] = now
           \/ last_processed_id[c] # None

\* The documents sync_document can be handed for collection c.
Candidates(c) == Range(source[c]) \cup Range(matched[c])

\* C4: sync_document run a second time on the same document, against the
\* target the first run left, leaves that target as it is and signals
\* "unchanged".
C4_Idempotent ==
    \A c \in Collections : \A d \in Candidates(c) :
        LET once == sync_document(target[c], d)
            twice == sync_document(once.target, d)
        IN twice.target = once.target /\ twice.signal = "unchanged"

\* A document was delivered again after it had been reconciled, while other
\* documents of the collection still need a write.
C4_Witness ==
    \E c \in Collections :
        /\ signal[c] = "unchanged"
        /\ \E d \in Candidates(c) : NeedsWrite(target[c], d)

\* A step of collection c that reconciles the next document of its batch.
ReconcileStep(c) ==
    /\ pc[c] = "process"
    /\ pc'[c] = "process"
    /\ documents_synced'[c] = documents_synced[c] + 1

\* C6: a reconciliation that does not fail inserts the document when the
\* target has none with its identifier, writes nothing when the target's
\* document equals it, and otherwise replaces that one document; afterwards
\* the target's document for the identifier is the source document, and no
\* other target document has changed.
C6_ReconcilerDecision ==
    [][\A c \in Collections : ReconcileStep(c) =>
          LET d == NextDoc(c)
              id == d["_id"]
          IN /\ id \in DOMAIN target'[c] /\ target'[c][id] = d
             /\ DOMAIN target'[c] = DOMAIN target[c] \cup {id}
             /\ \A i \in DOMAIN target[c] \ {id} : target'[c][i] = target[c][i]
             /\ id \notin DOMAIN target[c] => signal'[c] = "inserted"
             /\ (id \in DOMAIN target[c] /\ target[c][id] = d) =>
                   (target'[c] = target[c] /\ signal'[c] = "unchanged")
             /\ (id \in DOMAIN target[c] /\ target[c][id] # d) =>
                   signal'[c] = "updated"]_vars

\* One loop has just replaced a document the target held in an older
\* version, the other has just inserted one the target lacked.
C6_Witness ==
    \E c, e \in Collections :
        /\ signal[c] = "updated"
        /\ signal[e] = "inserted"
        /\ \E j \in 1..MaxDocs : Converged(c, j)
        /\ \E j \in 1..MaxDocs : Converged(e, j)

\* The priority order of the candidates as the specification gives it.
Priority == <<"updatedAt", "modifiedAt", "lastModified", "createdAt", "_id">>

FirstPresent(coll) ==
    IF \E i \in 1..Len(Priority) : Exists(coll, Priority[i])
    THEN Priority[CHOOSE i \in 1..Len(Priority) :
                     /\ Exists(coll, Priority[i])
                     /\ \A j \in 1..(i - 1) : ~Exists(coll, Priority[j])]
    ELSE "_id"

\* C7: once detection is over, the bound field is the first candidate, in
\* the order updatedAt, modifiedAt, lastModified, createdAt, _id, that some
\* source document carries; documents with createdAt and none of the earlier
\* candidates bind createdAt, not _id.
C7_OrderingFieldPriority ==
    \A c \in Collections :
        timestamp_field_used[c] # NoField =>
            /\ timestamp_field_used[c] = FirstPresent(source[c])
            /\ (/\ Exists(source[c], "createdAt")
                /\ ~Exists(source[c], "updatedAt")
                /\ ~Exists(source[c], "modifiedAt")
                /\ ~Exists(source[c], "lastModified"))
               => timestamp_field_used[c] = "createdAt"

\* Two loops have finished detection: one bound createdAt, the other a
\* different field.
C7_Witness ==
    \E c, e \in Collections :
        /\ timestamp_field_used[c] = "createdAt"
        /\ timestamp_field_used[e] \in {"updatedAt", "_id"}
        /\ Len(source[e]) > 0

\* C8: the batch of a cycle holds at most BATCH_SIZE documents, exactly
\* BATCH_SIZE when the query selects more than that, and all the selected
\* documents otherwise; no more documents than the batch holds are handed to
\* the reconciler.
C8_BatchBound ==
    \A c \in Collections :
        /\ Len(batch[c]) <= BATCH_SIZE
        /\ documents_synced[c] <= Len(batch[c])
        /\ Len(matched[c]) > BATCH_SIZE => Len(batch[c]) = BATCH_SIZE
        /\ Len(matched[c]) <= BATCH_SIZE => batch[c] = matched[c]

\* A query selected more than BATCH_SIZE documents and the whole batch has
\* been reconciled.
C8_Witness ==
    \E c \in Collections :
        /\ Len(matched[c]) > BATCH_SIZE
        /\ documents_synced[c] = BATCH_SIZE

\* A step of collection c that completes a cycle without an error.
CycleDone(c) == pc[c] = "process" /\ pc'[c] = "sleep"

\* C9: when a field-based cycle completes, every document its query selected
\* (bound field above the cursor) that the target already held is now the
\* selected source document in the target.
C9_UpdatePropagated ==
    [][\A c \in Collections :
          (CycleDone(c) /\ timestamp_field_used[c] # "_id") =>
             \A n \in 1..Len(matched[c]) :
                matched[c][n]["_id"] \in DOMAIN target[c] =>
                   target'[c][matched[c][n]["_id"]] = matched[c][n]]_vars

\* C5: with every write to A's target rejected and no other failure, no
\* document of A ever converges, every document that enters a batch of B
\* converges, and neither loop ever ends.
C5_ErrorIsolation ==
    /\ [](\A c \in Collections : pc[c] # "done")
    /\ [](\A j \in 1..MaxDocs : ~Converged("A", j))
    /\ \A j \in 1..MaxDocs : [](InBatch("B", j) => <>Converged("B", j))

\* A is backing off after a rejected write while B has converged a document
\* and completed the cycle.
C5_Witness ==
    /\ pc["A"] = "backoff"
    /\ Len(source["A"]) > 0
    /\ pc["B"] = "sleep"
    /\ \E j \in 1..MaxDocs : Converged("B", j)

\* The positions main is left at when the start-up fails (lines 223, 228).
StartupFailed == main_pc \in {"init_failed", "test_failed"}

\* No task exists and no poll loop has taken a step.
NoLoopStarted ==
    /\ tasks = <<>>
    /\ \A c \in Collections :
          /\ pc[c] = "idle"
          /\ probe[c] = 1
          /\ timestamp_field_used[c] = NoField
          /\ last_processed_id[c] = None
    /\ sync_state = <<>>

\* C11: start-up errors are fatal.  Once initialize_clients or the connection
\* test has failed, main has listed nothing and created no task, no poll loop
\* has taken a step, and this stays so: neither main nor any loop moves again.
C11_StartupFatal ==
    /\ [](StartupFailed => NoLoopStarted)
    /\ [][StartupFailed =>
            /\ main_pc' = main_pc
            /\ tasks' = tasks
            /\ pc' = pc
            /\ target' = target
            /\ sync_state' = sync_state]_vars

\* The connection test has failed, and time has passed since.
C11_Witness == main_pc = "test_failed" /\ now = MaxTime

\* C12: a failed cycle leaves the cursor unchanged.  On the step that takes a
\* loop into the error handler (the query or a reconciliation raised) nothing
\* is written to the target, last_processed_id keeps its value, the sync_state
\* entry keeps its value (an entry that did not exist yet is the one the
\* cycle's own get_last_sync_time created, one hour before the cycle), and
\* the loop sleeps 2 * POLL_INTERVAL; while it sleeps there, no document of
\* the collection is reconciled, and what follows is a new cycle.
C12_FailedCycleKeepsCursor ==
    [][\A c \in Collections :
          /\ pc'[c] = "backoff" =>
                /\ last_processed_id'[c] = last_processed_id[c]
                /\ c \in DOMAIN sync_state'
                /\ sync_state'[c] = IF c \in DOMAIN sync_state
                                    THEN sync_state[c] ELSE now - Hour
                /\ target'[c] = target[c]
                /\ sleep_for'[c] = 2 * POLL_INTERVAL
          /\ pc[c] = "backoff" =>
                /\ target'[c] = target[c]
                /\ pc'[c] \in {"backoff", "process"}]_vars

\* An identifier-based loop in the error handler: one document of the failed
\* batch was written, another was not, and the cursor is still unset.
C12_Witness ==
    \E c \in Collections :
        /\ pc[c] = "backoff"
        /\ timestamp_field_used[c] = "_id"
        /\ last_processed_id[c] = None
        /\ \E j \in 1..Len(source[c]) : Converged(c, j)
        /\ \E j \in 1..Len(source[c]) : source[c][j]["_id"] \notin DOMAIN target[c]

\* C13: detection errors are retried.  A loop in detection stays in detection,
\* goes on to its first cycle, or backs off to detect again; a failing probe
\* never ends the collection's replication.
C13_DetectionRetried ==
    [][\A c \in Collections :
          pc[c] = "detect" => pc'[c] \in {"detect", "poll", "backoff"}]_vars

\* C14: same window on retry.  The query a loop builds when it retries after
\* a failed cycle has the field, the operator and the lower bound of the query
\* of the failed cycle.
C14_SameWindowOnRetry ==
    [][\A c \in Collections : pc[c] = "backoff" => query'[c] = query[c]]_vars

\* C15: the cursor advance rule.  The current_time of a cycle is the clock at
\* the start of the cycle and does not change during it.  When a cycle
\* completes, a field-based loop stores that current_time as its sync_state
\* entry, whether the batch was empty or not; an identifier-based loop sets
\* last_processed_id to the identifier of the last document of the batch, and
\* leaves it as it was when the batch is empty.
C15_CursorAdvanceRule ==
    [][\A c \in Collections :
          /\ (pc[c] # "process" /\ pc'[c] = "process") => current_time'[c] = now
          /\ (pc[c] = "process" /\ pc'[c] = "process") =>
                current_time'[c] = current_time[c]
          /\ (pc[c] = "process" /\ pc'[c] = "sleep") =>
                IF timestamp_field_used[c] # "_id"
                THEN sync_state'[c] = current_time[c]
                ELSE last_processed_id'[c] =
                        IF batch[c] # <<>>
                        THEN batch[c][Len(batch[c])]["_id"]
                        ELSE last_processed_id[c]]_vars

\* A field-based loop has completed a cycle that started at the last clock
\* value, and an identifier-based loop has completed a non-empty batch.
C15_Witness ==
    \E c, e \in Collections :
        /\ pc[c] = "sleep"
        /\ timestamp_field_used[c] = "updatedAt"
        /\ sync_state[c] = MaxTime
        /\ pc[e] = "sleep"
        /\ timestamp_field_used[e] = "_id"
        /\ last_processed_id[e] # None

\* C16: sequential in-order reconciliation.  Every change of a collection's
\* target is one step of that collection's cycle that writes exactly the
\* document at position documents_synced + 1 of the batch, as fetched, and
\* counts it; within a cycle the count only goes up by one over an unchanged
\* batch, so document N + 1 is written only after document N was completed.
\* The step on which a document fails writes nothing, and nothing is written
\* to that target from then until a new cycle has fetched again.
C16_SequentialInOrder ==
    [][\A c \in Collections :
          /\ target'[c] # target[c] =>
                /\ pc[c] = "process" /\ pc'[c] = "process"
                /\ documents_synced[c] < Len(batch[c])
                /\ documents_synced'[c] = documents_synced[c] + 1
                /\ LET d == batch[c][documents_synced[c] + 1] IN
                      /\ DOMAIN target'[c] = DOMAIN target[c] \cup {d["_id"]}
                      /\ target'[c][d["_id"]] = d
                      /\ \A id \in DOMAIN target[c] :
                            id # d["_id"] => target'[c][id] = target[c][id]
          /\ (pc[c] = "process" /\ pc'[c] = "process") =>
                /\ batch'[c] = batch[c]
                /\ documents_synced'[c] \in
                      {documents_synced[c], documents_synced[c] + 1}
          /\ (pc[c] = "process" /\ pc'[c] = "backoff") =>
                /\ target'[c] = target[c]
                /\ batch'[c] = <<>>
          /\ pc[c] # "process" => target'[c] = target[c]]_vars

\* The second document of a batch has just been written, after the first.
C16_Witness ==
    \E c \in Collections :
        /\ pc[c] = "process"
        /\ documents_synced[c] = 2
        /\ signal[c] \in {"inserted", "updated"}
        /\ target[c][batch[c][1]["_id"]] = batch[c][1]

\* C17: the ordering strategy is decided once.  A loop is in detection only
\* before its first cycle: it never comes back to it, its probes advance
\* nowhere else, and no cycle runs without a bound field.  Once a field is
\* bound it never changes, whatever fails and whatever is inserted into the
\* source afterwards.
C17_StrategyDecidedOnce ==
    /\ [](\A c \in Collections :
            pc[c] \in {"poll", "process", "sleep", "backoff"} =>
                timestamp_field_used[c] # NoField)
    /\ [][\A c \in Collections :
            /\ timestamp_field_used[c] # NoField =>
                  timestamp_field_used'[c] = timestamp_field_used[c]
            /\ pc'[c] = "detect" => pc[c] \in {"idle", "detect"}
            /\ probe'[c] # probe[c] => pc[c] = "detect"
            /\ timestamp_field_used'[c] # timestamp_field_used[c] =>
                  pc[c] = "detect"]_vars

\* A loop bound to _id (its collection had no timestamp field at detection)
\* has been through a failed cycle, and its collection now holds a document
\* with updatedAt, the field detection would choose first.
C17_Witness ==
    \E c \in Collections :
        /\ timestamp_field_used[c] = "_id"
        /\ pc[c] = "backoff"
        /\ Exists(source[c], "updatedAt")

\* A step of the poll loop of collection c.
LoopStep(c) ==
    \/ Detect(c) \/ DetectFail(c)
    \/ Poll(c) \/ FetchFail(c)
    \/ Reconcile(c) \/ ReconcileFail(c)
    \/ EndBatch(c)

\* C18: cursor ownership.  Whatever the interleaving of the tasks, a step of
\* the loop of collection c leaves every other collection's sync_state entry
\* (its presence and its value), last_processed_id and bound field as they are.
C18_CursorOwnership ==
    [][\A c \in Collections :
          LoopStep(c) =>
             \A e \in Collections \ {c} :
                /\ (e \in DOMAIN sync_state') = (e \in DOMAIN sync_state)
                /\ e \in DOMAIN sync_state => sync_state'[e] = sync_state[e]
                /\ last_processed_id'[e] = last_processed_id[e]
                /\ timestamp_field_used'[e] = timestamp_field_used[e]]_vars

\* Two field-based loops interleaved: one has completed a whole cycle, and
\* stored its time, while a cycle of the other that started earlier is still
\* among its documents; the two entries differ.
C18_Witness ==
    \E c, e \in Collections :
        /\ pc[c] = "sleep"
        /\ timestamp_field_used[c] # "_id"
        /\ sync_state[c] = now
        /\ pc[e] = "process"
        /\ timestamp_field_used[e] # "_id"
        /\ current_time[e] < now
        /\ documents_synced[e] > 0
        /\ sync_state[e] # sync_state[c]

\* The number of tasks main has created for the collection called name.
TasksFor(name) == Cardinality({k \in 1..Len(tasks) : tasks[k] = name})

\* C19: orchestrator isolation.  Once main waits in gather it has created
\* exactly one task for each listed name that does not start with "system."
\* and none for the others, and each of these loops has been started.  The
\* step on which one task ends moves no other task and leaves main waiting;
\* main returns from gather only when every task has ended, and the handler
\* of main's except branch is reached by no task's failure.
C19_OrchestratorIsolation ==
    /\ [](main_pc \in {"gather", "returned"} =>
            /\ \A i \in 1..Len(collection_names) :
                  TasksFor(collection_names[i]) =
                     IF startswith(Chars(collection_names[i]), system_prefix)
                     THEN 0 ELSE 1
            /\ \A k \in 1..Len(tasks) : \E i \in 1..Len(collection_names) :
                  tasks[k] = collection_names[i]
            /\ \A c \in Collections : pc[c] # "idle")
    /\ [](main_pc = "returned" => \A c \in Collections : pc[c] = "done")
    /\ [](main_pc = "failed" => tasks = <<>>)
    /\ [][\A c \in Collections :
            (pc[c] # "done" /\ pc'[c] = "done") =>
               /\ \A e \in Collections \ {c} : pc'[e] = pc[e]
               /\ main_pc = "gather" /\ main_pc' = "gather"
               /\ tasks' = tasks]_vars

\* One task has ended with a failure; main is still waiting, and the other
\* loop has replicated a document and sleeps until its next cycle.
C19_Witness ==
    \E c, e \in Collections :
        /\ pc[c] = "done"
        /\ main_pc = "gather"
        /\ pc[e] = "sleep"
        /\ \E j \in 1..Len(source[e]) : Converged(e, j)

\* The identifier cursor of collection c has been advanced by a batch.
IdCursorSet(c) == timestamp_field_used[c] = "_id" /\ last_processed_id[c] # None

\* C20: with the identifier strategy, once last_processed_id is set every
\* fetch selects only identifiers strictly above it (before and after the
\* limit), no step reconciles a document at or below it, and the target's copy
\* of every such document keeps its value, whatever is written to the source.
C20_BelowCursorNeverAgain ==
    /\ [](\A c \in Collections :
            (IdCursorSet(c) /\ pc[c] = "process") =>
               /\ \A n \in 1..Len(matched[c]) :
                     matched[c][n]["_id"] > last_processed_id[c]
               /\ \A n \in 1..Len(batch[c]) :
                     batch[c][n]["_id"] > last_processed_id[c])
    /\ [][\A c \in Collections :
            IdCursorSet(c) =>
               \A id \in DOMAIN target[c] :
                  id <= last_processed_id[c] =>
                     /\ id \in DOMAIN target'[c]
                     /\ target'[c][id] = target[c][id]]_vars

\* A document at or below the identifier cursor was rewritten in the source;
\* a cycle that fetched after the write has gone through its whole batch,
\* and the target still holds an older payload.
C20_Witness ==
    \E c \in Collections :
        /\ IdCursorSet(c)
        /\ pc[c] = "process"
        /\ current_time[c] = now
        /\ documents_synced[c] = Len(batch[c])
        /\ \E j \in 1..Len(source[c]) :
              LET d == source[c][j] IN
                 /\ d["_id"] <= last_processed_id[c]
                 /\ d["v"] > 1
                 /\ d["_id"] \in DOMAIN target[c]
                 /\ target[c][d["_id"]]["v"] < d["v"]

====
